---- MODULE Spec2Model ----
(***************************************************************************)
(* The Book API (server.js): an express application with a readiness gate  *)
(* on the mongoose connection, a startup seeding routine, three handlers   *)
(* that query the database and handlers that filter and sort the static    *)
(* in-memory dataset.                                                      *)
(***************************************************************************)
EXTENDS Integers, Sequences, FiniteSets, TLC

(***************************************************************************)
(* Bounds of the model.                                                    *)
(***************************************************************************)
\* number of records of books.json kept in the static dataset
NumBooks == 3
\* number of requests that may wait for the database at the same time
MaxPending == 1

(***************************************************************************)
(* JavaScript values.  A string is a sequence of one-character strings, a   *)
(* number is a record [k, v] with k one of "num", "nan", "inf".  A query    *)
(* parameter that is absent (undefined) and one that is the empty string    *)
(* are both falsy and the handlers only ever test truthiness, so both are   *)
(* the empty sequence.                                                      *)
(***************************************************************************)
Absent == << >>

Num(n) == [k |-> "num", v |-> n]
NaN == [k |-> "nan", v |-> 0]
Infinity == [k |-> "inf", v |-> 0]

Digits == {"0", "1", "2", "3", "4", "5", "6", "7", "8", "9"}

DigitVal(c) ==
  CASE c = "0" -> 0 [] c = "1" -> 1 [] c = "2" -> 2 [] c = "3" -> 3
    [] c = "4" -> 4 [] c = "5" -> 5 [] c = "6" -> 6 [] c = "7" -> 7
    [] c = "8" -> 8 [] c = "9" -> 9

RECURSIVE TrimLeft(_)
TrimLeft(s) ==
  IF s # << >> /\ Head(s) = " " THEN TrimLeft(Tail(s)) ELSE s

RECURSIVE TrimRight(_)
TrimRight(s) ==
  IF s # << >> /\ s[Len(s)] = " " THEN TrimRight(SubSeq(s, 1, Len(s) - 1)) ELSE s

RECURSIVE DecimalDigits(_, _)
\* the value of a run of decimal digits, NaN when another character occurs
DecimalDigits(s, acc) ==
  IF s = << >> THEN Num(acc)
  ELSE IF Head(s) \in Digits
       THEN DecimalDigits(Tail(s), acc * 10 + DigitVal(Head(s)))
       ELSE NaN

\* ToNumber applied to a string (unary plus, and the implicit conversion of
\* the relational operators): white space is trimmed, the empty string is 0,
\* an optionally signed run of digits is its value, anything else is NaN.
ToNumber(s) ==
  LET t == TrimRight(TrimLeft(s)) IN
  IF t = << >> THEN Num(0)
  ELSE IF Head(t) \in {"+", "-"}
       THEN IF Len(t) = 1 THEN NaN
            ELSE LET d == DecimalDigits(Tail(t), 0) IN
                 IF d.k = "num" /\ Head(t) = "-" THEN Num(0 - d.v) ELSE d
       ELSE DecimalDigits(t, 0)

\* a >= b on numbers: false when either side is NaN
GreaterEq(a, b) ==
  /\ a.k # "nan" /\ b.k # "nan"
  /\ \/ a.k = "inf"
     \/ a.k = "num" /\ b.k = "num" /\ a.v >= b.v

\* a <= b on numbers
LessEq(a, b) == GreaterEq(b, a)

\* truthiness of a query parameter (undefined and "" are falsy)
Truthy(p) == Len(p) > 0

ToLowerChar(c) ==
  CASE c = "L" -> "l" [] c = "O" -> "o" [] c = "R" -> "r" [] c = "D" -> "d"
    [] c = "A" -> "a" [] c = "X" -> "x" [] c = "W" -> "w"
    [] OTHER -> c

ToLowerCase(s) == [i \in 1..Len(s) |-> ToLowerChar(s[i])]

\* String.prototype.indexOf(needle) !== -1
Contains(hay, needle) ==
  \E i \in 0..(Len(hay) - Len(needle)) :
    \A j \in 1..Len(needle) : hay[i + j] = needle[j]

(***************************************************************************)
(* The static dataset (import data from './data/books.json').               *)
(***************************************************************************)
Books ==
  << [bookID |-> 1, title |-> <<"L", "o", "r", "d">>, average_rating |-> 4,
      num_pages |-> 2, language_code |-> "eng"],
     [bookID |-> 2, title |-> <<"l", "o", "w">>, average_rating |-> 5,
      num_pages |-> 1, language_code |-> "spa"],
     [bookID |-> 3, title |-> <<"A", "x">>, average_rating |-> 0,
      num_pages |-> 0, language_code |-> "eng"],
     [bookID |-> 4, title |-> <<"W", "O", "R", "D">>, average_rating |-> 4,
      num_pages |-> 3, language_code |-> "fre"],
     [bookID |-> 5, title |-> <<"a", "d">>, average_rating |-> 3,
      num_pages |-> 2, language_code |-> "spa"] >>

\* the dataset as loaded at process start
Data0 == SubSeq(Books, 1, IF NumBooks < Len(Books) THEN NumBooks ELSE Len(Books))

(***************************************************************************)
(* GET /books/search: the pure part of the handler.                         *)
(***************************************************************************)
RECURSIVE InsertSorted(_, _, _)
\* x placed after every element that the comparator (b[key] - a[key]) does
\* not order behind it
InsertSorted(s, x, key) ==
  IF s = << >> THEN << x >>
  ELSE IF x[key] - Head(s)[key] <= 0
       THEN << Head(s) >> \o InsertSorted(Tail(s), x, key)
       ELSE << x >> \o s

RECURSIVE SortInto(_, _, _)
SortInto(done, rest, key) ==
  IF rest = << >> THEN done
  ELSE SortInto(InsertSorted(done, Head(rest), key), Tail(rest), key)

\* Array.prototype.sort((a, b) => b[key] - a[key]): stable, descending by key
ArraySort(arr, key) == SortInto(<< >>, arr, key)

\* the page-count sort applied first and the rating sort last
SortStepsSwapped(arr, q) ==
  LET byPages == IF Truthy(q.sortPageCount) THEN ArraySort(arr, "num_pages") ELSE arr
  IN IF Truthy(q.sortRating) THEN ArraySort(byPages, "average_rating") ELSE byPages

\* if (sortRating) sort by rating; if (sortPageCount) sort by page count
SortSteps(arr, q) ==
  LET byRating == IF Truthy(q.sortRating) THEN ArraySort(arr, "average_rating") ELSE arr
  IN IF Truthy(q.sortPageCount) THEN ArraySort(byRating, "num_pages") ELSE byRating

\* the sorts run on a private copy and leave the shared array alone
DataAfterSearchCopy(arr, q) == arr

\* resultsToSend is the array `data` itself, so the sorts reorder `data`
DataAfterSearch(arr, q) == SortSteps(arr, q)

\* a limit taken from a query parameter, compared as a number
Limit(p, default) == IF Truthy(p) THEN ToNumber(p) ELSE default

TitleFilter(arr, title) ==
  IF Truthy(title)
  THEN SelectSeq(arr, LAMBDA item : Contains(ToLowerCase(item.title), ToLowerCase(title)))
  ELSE arr

\* the rating filter with > in place of >=
RatingFilterStrict(arr, limit) ==
  SelectSeq(arr, LAMBDA item : GreaterEq(Num(item.average_rating), limit)
                                /\ Num(item.average_rating) # limit)

RatingFilter(arr, limit) ==
  SelectSeq(arr, LAMBDA item : GreaterEq(Num(item.average_rating), limit))

PagesUpperFilter(arr, limit) ==
  SelectSeq(arr, LAMBDA item : LessEq(Num(item.num_pages), limit))

PagesLowerFilter(arr, limit) ==
  SelectSeq(arr, LAMBDA item : GreaterEq(Num(item.num_pages), limit))

\* filteredData, computed from the (already sorted) shared array
FilteredData(sorted, q) ==
  PagesLowerFilter(
    PagesUpperFilter(
      RatingFilter(TitleFilter(sorted, q.title), Limit(q.rating, Num(0))),
      Limit(q.pageCountHigh, Infinity)),
    Limit(q.pageCountLow, Num(0)))

(***************************************************************************)
(* GET /lang/:lang: the pure part of the handler.                           *)
(***************************************************************************)
\* Array.prototype.indexOf, 1-based; 0 when v does not occur
IndexOf(a, v) ==
  IF \E i \in 1..Len(a) : a[i] = v
  THEN CHOOSE i \in 1..Len(a) : a[i] = v /\ \A j \in 1..(i - 1) : a[j] # v
  ELSE 0

LanguageCodes(arr) == [i \in 1..Len(arr) |-> arr[i].language_code]

\* the language codes without the indexOf filter
LangListNoDedup(arr) == LanguageCodes(arr)

\* data.map(item => item.language_code).filter((v, i, a) => a.indexOf(v) === i)
LangList(arr) ==
  LET a == LanguageCodes(arr)
      kept == SelectSeq([i \in 1..Len(a) |-> i], LAMBDA i : IndexOf(a, a[i]) = i)
  IN [n \in 1..Len(kept) |-> a[kept[n]]]

\* data.filter(item => item.language_code === lang)
LangBooks(arr, lang) == SelectSeq(arr, LAMBDA item : item.language_code = lang)

LangData(arr, lang) == IF lang = "list" THEN LangList(arr) ELSE LangBooks(arr, lang)

(***************************************************************************)
(* The Book collection of the database.                                     *)
(***************************************************************************)
\* the record the seeding routine inserts: new Book({...}); the two fields
\* no handler computes with are kept as text
SeedRecord ==
  [bookID |-> 36, title |-> "The Lord of the Rings: Weapons and Warfare",
   authors |-> "Chris   Smith-Christopher  Lee-Richard Taylor",
   average_rating |-> "4.53", isbn |-> 618391002, isbn13 |-> "9780618391004",
   language_code |-> "eng", num_pages |-> 218, ratings_count |-> 18934,
   text_reviews_count |-> 43]

\* records an earlier run or another writer may have left in the collection
OtherRecord == [SeedRecord EXCEPT !.bookID = 12, !.title = "Other", !.isbn = 12]
StaleRecord == [SeedRecord EXCEPT !.bookID = 99, !.title = "Stale"]

\* what the collection may hold when the process starts
InitialCollections == { << >>, << SeedRecord >>, << OtherRecord, StaleRecord >> }

Null == [null |-> TRUE]

\* Book.find(): every record of the collection
Find(coll) == coll

\* Book.findOne({ isbn: n }): the first record whose isbn equals n, or null
FindOne(coll, n) ==
  LET hits == SelectSeq(coll, LAMBDA doc : n.k = "num" /\ doc.isbn = n.v)
  IN IF hits = << >> THEN Null ELSE Head(hits)

\* a cast that accepts every value
CastFailsNever(n) == FALSE

\* mongoose casts the condition to the schema type Number before the query
\* is sent: NaN does not cast, and the query is rejected with a CastError
CastFails(n) == n.k = "nan"

(***************************************************************************)
(* Requests.                                                                *)
(***************************************************************************)
NoQuery ==
  [title |-> Absent, rating |-> Absent, sortRating |-> Absent,
   pageCountHigh |-> Absent, pageCountLow |-> Absent, sortPageCount |-> Absent]

SearchQueries ==
  [title : {Absent, <<"L", "O">>},
   rating : {Absent, <<"4">>, <<"a">>},
   sortRating : {Absent, <<"1">>},
   pageCountHigh : {Absent, <<"2">>},
   pageCountLow : {Absent, <<"1">>},
   sortPageCount : {Absent, <<"1">>}]

SeedSegment == <<"6", "1", "8", "3", "9", "1", "0", "0", "2">>

IsbnSegments ==
  { SeedSegment, <<"1", "2">>, <<" ", "7">>, <<"a", "b">>, <<"1", "2", "a">>, <<"-">> }

LangSegments == {"list", "eng", "zzz"}

\* body: "none" (no body), "valid" (JSON that parses), "malformed"
Req(method, path, isbn, lang, query, body) ==
  [method |-> method, path |-> path, isbn |-> isbn, lang |-> lang,
   query |-> query, body |-> body]

Plain(method, path) == Req(method, path, << >>, "", NoQuery, "none")

Requests ==
  { Plain("GET", p) : p \in {"/authors", "/key", "/books/all", "/docs", "/post", "/nowhere"} }
  \cup { Plain("OPTIONS", "/key") }
  \cup { Req("GET", "/books/search", << >>, "", q, "none") : q \in SearchQueries }
  \cup { Req("GET", "/book/isbn", s, "", NoQuery, "none") : s \in IsbnSegments }
  \cup { Req("GET", "/lang", << >>, l, NoQuery, "none") : l \in LangSegments }
  \cup { Req("POST", "/post", << >>, "", NoQuery, b) : b \in {"none", "valid", "malformed"} }

\* the value a valid JSON body parses to
ParsedBody(body) == IF body = "valid" THEN [a |-> 1] ELSE [empty |-> TRUE]

Json(v) == [json |-> v]
Text(t) == [text |-> t]

(***************************************************************************)
(* The middleware chain in front of the routes, in registration order:      *)
(* cors(), express.json(), the documentation pages, the readiness gate.     *)
(* The value is the stage that answers, or "route" when the request gets    *)
(* to the route handlers.                                                   *)
(***************************************************************************)
\* a chain in which the gate lets everything through
MiddlewareNoGate(req, rs) ==
  IF req.method = "OPTIONS" THEN "cors"
  ELSE IF req.body = "malformed" THEN "json"
  ELSE IF req.path = "/docs" THEN "docs"
  ELSE "route"

Middleware(req, rs) ==
  IF req.method = "OPTIONS" THEN "cors"
  ELSE IF req.body = "malformed" THEN "json"
  ELSE IF req.path = "/docs" THEN "docs"
  ELSE IF rs = 1 THEN "route"
  ELSE "gate"

(***************************************************************************)
(* State.                                                                   *)
(*   readyState  mongoose.connection.readyState (0 disconnected,            *)
(*               1 connected, 2 connecting)                                 *)
(*   seed        position of the seeding routine                            *)
(*   db          the Book collection, in natural order                      *)
(*   data        the static dataset array, shared by all requests           *)
(*   pending     the requests whose handler awaits a database query         *)
(*   last        the most recent response, with the request it answers      *)
(*   lastSort    history: the key of the most recent sort of `data`         *)
(***************************************************************************)
VARIABLES readyState, seed, db, data, pending, last, lastSort

vars == << readyState, seed, db, data, pending, last, lastSort >>

Slots == 1..MaxPending

Idle == [pc |-> "idle"]

NoResponse ==
  [by |-> "none", req |-> Plain("GET", "/"), status |-> 0, body |-> Text(""),
   rs |-> 0, lookup |-> "none", seeded |-> FALSE, coll |-> << >>]

\* a response: who answered, the request, status and body, and readyState
\* when the request arrived; no query was involved
Response(by, req, status, body, rs) ==
  [by |-> by, req |-> req, status |-> status, body |-> body, rs |-> rs,
   lookup |-> "none", seeded |-> FALSE, coll |-> << >>]

\* the response of a handler whose query was executed: how the query ended
\* ("done", "failed"), whether seeding had completed and what the collection
\* held at that moment
QueryResponse(req, status, body, lookup, seeded, coll) ==
  [by |-> req.path, req |-> req, status |-> status, body |-> body, rs |-> 1,
   lookup |-> lookup, seeded |-> seeded, coll |-> coll]

Init ==
  /\ readyState = 2
  /\ seed = "deletePending"
  /\ db \in InitialCollections
  /\ data = Data0
  /\ pending = [s \in Slots |-> Idle]
  /\ last = NoResponse
  /\ lastSort = "none"

(***************************************************************************)
(* The connection.                                                          *)
(***************************************************************************)
Connected ==
  /\ readyState = 2
  /\ readyState' = 1
  /\ UNCHANGED << seed, db, data, pending, last, lastSort >>

ConnectFailed ==
  /\ readyState = 2
  /\ readyState' = 0
  /\ UNCHANGED << seed, db, data, pending, last, lastSort >>

ConnectionLost ==
  /\ readyState = 1
  /\ readyState' = 0
  /\ UNCHANGED << seed, db, data, pending, last, lastSort >>

Reconnecting ==
  /\ readyState = 0
  /\ readyState' = 2
  /\ UNCHANGED << seed, db, data, pending, last, lastSort >>

(***************************************************************************)
(* Seeding: Book.deleteMany().then(() => new Book({...}).save()).           *)
(***************************************************************************)
\* a deleteMany that removes nothing
AfterDeleteManyKeep(coll) == coll

\* the collection after deleteMany() with no condition
AfterDeleteMany(coll) == << >>

\* the collection after save() of the new document
AfterSave(coll) == Append(coll, SeedRecord)

DeleteManyDone ==
  /\ seed = "deletePending"
  /\ readyState = 1
  /\ db' = AfterDeleteMany(db)
  /\ seed' = "savePending"
  /\ UNCHANGED << readyState, data, pending, last, lastSort >>

\* the rejection is not handled: the then-callback never runs
DeleteManyRejected ==
  /\ seed = "deletePending"
  /\ seed' = "deleteFailed"
  /\ UNCHANGED << readyState, db, data, pending, last, lastSort >>

SaveDone ==
  /\ seed = "savePending"
  /\ readyState = 1
  /\ db' = AfterSave(db)
  /\ seed' = "done"
  /\ UNCHANGED << readyState, data, pending, last, lastSort >>

SaveRejected ==
  /\ seed = "savePending"
  /\ seed' = "saveFailed"
  /\ UNCHANGED << readyState, db, data, pending, last, lastSort >>

\* the process ends and is started again: the module is evaluated anew,
\* the collection is what the database holds
ProcessStart ==
  /\ readyState' = 2
  /\ seed' = "deletePending"
  /\ data' = Data0
  /\ pending' = [s \in Slots |-> Idle]
  /\ last' = NoResponse
  /\ lastSort' = "none"
  /\ UNCHANGED db

(***************************************************************************)
(* Requests answered before they reach a route handler.                     *)
(***************************************************************************)
\* the response of the stage that answers: the CORS preflight, the body
\* parser's error, the documentation page, the readiness gate
StageResponse(stage, req, rs) ==
  CASE stage = "cors" -> Response("cors", req, 204, Text(""), rs)
    [] stage = "json" -> Response("json", req, 400, Text("Bad Request"), rs)
    [] stage = "docs" -> Response("docs", req, 200, Text("swagger-ui"), rs)
    [] stage = "gate" ->
         Response("gate", req, 503, Json([error |-> "Service unavailable"]), rs)

AnsweredByMiddleware(req) ==
  /\ Middleware(req, readyState) # "route"
  /\ last' = StageResponse(Middleware(req, readyState), req, readyState)
  /\ UNCHANGED << readyState, seed, db, data, pending, lastSort >>

(***************************************************************************)
(* Route handlers that answer at once.                                      *)
(***************************************************************************)
Routed(req, method, path) ==
  /\ Middleware(req, readyState) = "route"
  /\ req.method = method
  /\ req.path = path

\* app.get('/key')
GetKey(req) ==
  /\ Routed(req, "GET", "/key")
  /\ last' = Response("/key", req, 200, Text("API_KEY"), readyState)
  /\ UNCHANGED << readyState, seed, db, data, pending, lastSort >>

\* the sort key the request leaves the shared array sorted by
SortKeyLeft(q, before) ==
  IF Truthy(q.sortPageCount) THEN "num_pages"
  ELSE IF Truthy(q.sortRating) THEN "average_rating"
  ELSE before

\* app.get('/books/search')
GetSearch(req) ==
  /\ Routed(req, "GET", "/books/search")
  /\ data' = DataAfterSearch(data, req.query)
  /\ last' = Response("/books/search", req, 200,
                      Json([filteredData |-> FilteredData(SortSteps(data, req.query), req.query),
                            success |-> TRUE]),
                      readyState)
  /\ lastSort' = SortKeyLeft(req.query, lastSort)
  /\ UNCHANGED << readyState, seed, db, pending >>

\* app.get('/lang/:lang'): an array is never falsy, the 404 branch is dead
GetLang(req) ==
  /\ Routed(req, "GET", "/lang")
  /\ last' = Response("/lang", req, 200, Json(LangData(data, req.lang)), readyState)
  /\ UNCHANGED << readyState, seed, db, data, pending, lastSort >>

\* app.post('/post')
PostPost(req) ==
  /\ Routed(req, "POST", "/post")
  /\ last' = Response("/post", req, 200, Json(ParsedBody(req.body)), readyState)
  /\ UNCHANGED << readyState, seed, db, data, pending, lastSort >>

RoutePaths == {"/authors", "/key", "/books/search", "/book/isbn", "/books/all", "/lang"}

\* no route matches: express answers 404
NoRoute(req) ==
  /\ Middleware(req, readyState) = "route"
  /\ ~ \/ req.method = "GET" /\ req.path \in RoutePaths
       \/ req.method = "POST" /\ req.path = "/post"
  /\ last' = Response("express", req, 404, Text("Cannot " \o req.method), readyState)
  /\ UNCHANGED << readyState, seed, db, data, pending, lastSort >>

(***************************************************************************)
(* Route handlers that await a database query.                              *)
(***************************************************************************)
FreeSlot(s) ==
  /\ pending[s].pc = "idle"
  /\ \A t \in Slots : t < s => pending[t].pc # "idle"

Awaiting(req, cond) == [pc |-> "awaiting", req |-> req, cond |-> cond]

\* app.get('/authors'), up to the await
GetAuthors(req) ==
  /\ Routed(req, "GET", "/authors")
  /\ \E s \in Slots :
       /\ FreeSlot(s)
       /\ pending' = [pending EXCEPT ![s] = Awaiting(req, Num(0))]
  /\ UNCHANGED << readyState, seed, db, data, last, lastSort >>

\* app.get('/books/all'), up to the then
GetBooksAll(req) ==
  /\ Routed(req, "GET", "/books/all")
  /\ \E s \in Slots :
       /\ FreeSlot(s)
       /\ pending' = [pending EXCEPT ![s] = Awaiting(req, Num(0))]
  /\ UNCHANGED << readyState, seed, db, data, last, lastSort >>

\* app.get('/book/isbn/:isbn'), up to the await: the condition is +isbn
GetIsbn(req) ==
  /\ Routed(req, "GET", "/book/isbn")
  /\ \E s \in Slots :
       /\ FreeSlot(s)
       /\ pending' = [pending EXCEPT ![s] = Awaiting(req, ToNumber(req.isbn))]
  /\ UNCHANGED << readyState, seed, db, data, last, lastSort >>

AwaitingOn(s, path) ==
  /\ pending[s].pc = "awaiting"
  /\ pending[s].req.path = path

\* Book.find() resolves: res.json(...)
FindResolved(s) ==
  /\ \/ AwaitingOn(s, "/authors")
     \/ AwaitingOn(s, "/books/all")
  /\ readyState = 1
  /\ last' = QueryResponse(pending[s].req, 200, Json(Find(db)), "done", seed = "done", db)
  /\ pending' = [pending EXCEPT ![s] = Idle]
  /\ UNCHANGED << readyState, seed, db, data, lastSort >>

\* Book.find() rejects: neither handler catches it.  The rejection is
\* unhandled: the runtime either only reports it, and the request is never
\* answered, or ends the process.
FindRejected(s) ==
  /\ \/ AwaitingOn(s, "/authors")
     \/ AwaitingOn(s, "/books/all")
  /\ \/ /\ pending' = [pending EXCEPT ![s].pc = "abandoned"]
        /\ UNCHANGED << readyState, seed, db, data, last, lastSort >>
     \/ ProcessStart

\* the 404 branch taken for every result
IsbnFoundAlways404(book) ==
  [status |-> 404, body |-> Text("No data found")]

\* the null test left out: whatever findOne gave is sent as JSON
IsbnFoundNever404(book) ==
  [status |-> 200, body |-> Json(book)]

\* if (!book) 404 'No data found' else res.json(book)
IsbnFound(book) ==
  IF book = Null
  THEN [status |-> 404, body |-> Text("No data found")]
  ELSE [status |-> 200, body |-> Json(book)]

\* catch (err): 400 { error: 'Invalid isbn' }
IsbnCaught == [status |-> 400, body |-> Json([error |-> "Invalid isbn"])]

\* the condition does not cast: the query is rejected without reaching the
\* collection, and the handler's catch answers
IsbnCastError(s) ==
  /\ AwaitingOn(s, "/book/isbn")
  /\ CastFails(pending[s].cond)
  /\ last' = Response("/book/isbn", pending[s].req, IsbnCaught.status, IsbnCaught.body, 1)
  /\ pending' = [pending EXCEPT ![s] = Idle]
  /\ UNCHANGED << readyState, seed, db, data, lastSort >>

\* Book.findOne resolves
IsbnResolved(s) ==
  /\ AwaitingOn(s, "/book/isbn")
  /\ ~ CastFails(pending[s].cond)
  /\ readyState = 1
  /\ LET r == IsbnFound(FindOne(db, pending[s].cond))
     IN last' = QueryResponse(pending[s].req, r.status, r.body, "done", seed = "done", db)
  /\ pending' = [pending EXCEPT ![s] = Idle]
  /\ UNCHANGED << readyState, seed, db, data, lastSort >>

\* Book.findOne rejects (the query fails at the database): the catch answers
IsbnRejected(s) ==
  /\ AwaitingOn(s, "/book/isbn")
  /\ ~ CastFails(pending[s].cond)
  /\ last' = QueryResponse(pending[s].req, IsbnCaught.status, IsbnCaught.body, "failed",
                           seed = "done", db)
  /\ pending' = [pending EXCEPT ![s] = Idle]
  /\ UNCHANGED << readyState, seed, db, data, lastSort >>

NonSearchRequests == { req \in Requests : req.path # "/books/search" }

\* the connection and the process
Environment ==
  \/ Connected
  \/ ConnectFailed
  \/ ConnectionLost
  \/ Reconnecting
  \/ ProcessStart

Seeding ==
  \/ DeleteManyDone
  \/ DeleteManyRejected
  \/ SaveDone
  \/ SaveRejected

\* the requests `reqs` answered without a database query
Immediate(reqs) ==
  \/ \E req \in reqs : AnsweredByMiddleware(req)
  \/ \E req \in reqs : GetKey(req)
  \/ \E req \in reqs : GetLang(req)
  \/ \E req \in reqs : PostPost(req)
  \/ \E req \in reqs : NoRoute(req)

\* the requests `reqs` whose handler queries the database
Querying(reqs) ==
  \/ \E req \in reqs : GetAuthors(req)
  \/ \E req \in reqs : GetBooksAll(req)
  \/ \E req \in reqs : GetIsbn(req)
  \/ \E s \in Slots : FindResolved(s)
  \/ \E s \in Slots : FindRejected(s)
  \/ \E s \in Slots : IsbnCastError(s)
  \/ \E s \in Slots : IsbnResolved(s)
  \/ \E s \in Slots : IsbnRejected(s)

Searching == \E req \in Requests : GetSearch(req)

\* the whole server
Next ==
  \/ Environment
  \/ Seeding
  \/ Immediate(Requests)
  \/ Querying(Requests)
  \/ Searching

Spec == Init /\ [][Next]_vars

\* the server with every request but the admitted searches: the static
\* dataset keeps its load order
NextDatabase ==
  \/ Environment
  \/ Seeding
  \/ Immediate(NonSearchRequests)
  \/ Querying(NonSearchRequests)

SpecDatabase == Init /\ [][NextDatabase]_vars

\* the server with every request, the handlers that query the database
\* never admitted and seeding never run
NextDataset ==
  \/ Environment
  \/ Immediate(Requests)
  \/ Searching

SpecDataset == Init /\ [][NextDataset]_vars

(***************************************************************************)
(* Vocabulary of the properties.                                            *)
(***************************************************************************)
Answered == last.by # "none"

GateBody == Json([error |-> "Service unavailable"])

InvalidIsbnBody == Json([error |-> "Invalid isbn"])

IsbnAnswered == last.by = "/book/isbn"

SearchAnswered == last.by = "/books/search"

LangListAnswered == last.by = "/lang" /\ last.req.lang = "list"

\* number of positions of sequence a that hold x
Count(a, x) == Cardinality({ i \in 1..Len(a) : a[i] = x })

\* position of the first element of a that holds code c as language code
FirstPosition(a, c) ==
  CHOOSE i \in 1..Len(a) :
    a[i].language_code = c /\ \A j \in 1..(i - 1) : a[j].language_code # c

\* the language codes of `codes`: each code of the dataset `a` once, nothing
\* else, in the order of their first occurrence in `a`
DistinctCodesInOrderOf(codes, a) ==
  /\ \A i, j \in 1..Len(codes) : i # j => codes[i] # codes[j]
  /\ { codes[i] : i \in 1..Len(codes) } = { a[i].language_code : i \in 1..Len(a) }
  /\ \A i, j \in 1..Len(codes) :
       i < j => FirstPosition(a, codes[i]) < FirstPosition(a, codes[j])

\* sequence a is ordered by non-increasing key
NonIncreasing(a, key) == \A i \in 1..(Len(a) - 1) : a[i][key] >= a[i + 1][key]

\* position of record x in the array a of distinct records
PositionIn(a, x) == CHOOSE i \in 1..Len(a) : a[i] = x

\* the records of part are records of a, in the relative order they have in a
KeepsOrderOf(part, a) ==
  /\ \A i \in 1..Len(part) : \E k \in 1..Len(a) : a[k] = part[i]
  /\ \A i, j \in 1..Len(part) : i < j => PositionIn(a, part[i]) < PositionIn(a, part[j])

\* record b satisfies every filter present in query q; a filter whose value
\* is not a number is satisfied by no record
Satisfies(b, q) ==
  /\ q.title # Absent => Contains(ToLowerCase(b.title), ToLowerCase(q.title))
  /\ q.rating # Absent =>
       /\ ToNumber(q.rating).k = "num"
       /\ b.average_rating >= ToNumber(q.rating).v
  /\ q.pageCountLow # Absent =>
       /\ ToNumber(q.pageCountLow).k = "num"
       /\ b.num_pages >= ToNumber(q.pageCountLow).v
  /\ q.pageCountHigh # Absent =>
       /\ ToNumber(q.pageCountHigh).k = "num"
       /\ b.num_pages <= ToNumber(q.pageCountHigh).v

NoSortFlag(q) == q.sortRating = Absent /\ q.sortPageCount = Absent

BothSortFlags(q) == q.sortRating # Absent /\ q.sortPageCount # Absent

\* the request was not answered by a stage registered before the gate
ReachesGate(req) ==
  /\ req.method # "OPTIONS"
  /\ req.body # "malformed"
  /\ req.path # "/docs"

\* the number the path segment converts to is n
ConvertsTo(seg, n) == ToNumber(seg) = Num(n)

\* no record of collection coll has the isbn the segment converts to
NoMatchIn(coll, seg) ==
  /\ ToNumber(seg).k = "num"
  /\ \A i \in 1..Len(coll) : coll[i].isbn # ToNumber(seg).v

(***************************************************************************)
(* C1                                                                       *)
(***************************************************************************)
\* C1 as stated: every request that arrives while readyState is not 1 is
\* answered by the readiness gate with 503 {"error": "Service unavailable"},
\* whatever its method, path and body.
C1_NotReadyAlways503 ==
  (Answered /\ last.rs # 1) =>
    (last.by = "gate" /\ last.status = 503 /\ last.body = GateBody)

\* C1 amended: a request that arrives while readyState is not 1 and is not
\* answered by a stage registered before the gate (a CORS preflight, a
\* malformed JSON body, a path under /docs) is answered by the gate with 503
\* {"error": "Service unavailable"}; no route handler answers it.
C1_GateAnswersWhatReachesIt ==
  (Answered /\ last.rs # 1 /\ ReachesGate(last.req)) =>
    (last.by = "gate" /\ last.status = 503 /\ last.body = GateBody)

\* a request for a route that uses no database, rejected by the gate
C1_Witness ==
  /\ last.by = "gate"
  /\ last.rs = 0
  /\ last.req.path = "/key"
  /\ last.status = 503

(***************************************************************************)
(* C2                                                                       *)
(***************************************************************************)
\* C2 as stated, for the lookups that complete: an admitted
\* GET /book/isbn/618391002 is answered 200 with the seeded record at every
\* moment of the process lifetime, also while seeding is in progress.
C2_SeedIsbnAlways200 ==
  (IsbnAnswered /\ ConvertsTo(last.req.isbn, SeedRecord.isbn) /\ last.lookup = "done") =>
    (last.status = 200 /\ last.body = Json(SeedRecord))

\* C2 amended: an admitted GET /book/isbn/618391002 whose lookup completes
\* after seeding has finished is answered 200 with the seeded record.
C2_SeedIsbn200OnceSeeded ==
  (/\ IsbnAnswered
   /\ ConvertsTo(last.req.isbn, SeedRecord.isbn)
   /\ last.lookup = "done"
   /\ last.seeded) =>
    (last.status = 200 /\ last.body = Json(SeedRecord))

\* the seeded isbn looked up after seeding has finished
C2_Witness ==
  /\ IsbnAnswered
  /\ last.req.isbn = SeedSegment
  /\ last.lookup = "done"
  /\ last.seeded
  /\ last.status = 200

(***************************************************************************)
(* C3                                                                       *)
(***************************************************************************)
\* C3: a path segment that unary plus converts to NaN is answered 400
\* {"error": "Invalid isbn"} and no lookup runs against the collection.
C3_NonNumericIsbn400 ==
  (IsbnAnswered /\ ToNumber(last.req.isbn) = NaN) =>
    (last.status = 400 /\ last.body = InvalidIsbnBody /\ last.lookup = "none")

\* a segment that starts with digits and is still not a number
C3_Witness ==
  /\ IsbnAnswered
  /\ last.req.isbn = <<"1", "2", "a">>
  /\ last.status = 400

(***************************************************************************)
(* C4                                                                       *)
(***************************************************************************)
\* C4 as stated: a numeric segment that matches no record of the collection
\* is answered 404 "No data found", never 400 and never 200.
C4_NoMatchAlways404 ==
  (IsbnAnswered /\ last.lookup # "none" /\ NoMatchIn(last.coll, last.req.isbn)) =>
    (last.status = 404 /\ last.body = Text("No data found"))

\* C4 amended: a numeric segment that matches no record of the collection is
\* answered 404 "No data found" when the lookup completes.
C4_NoMatch404WhenLookupCompletes ==
  (IsbnAnswered /\ last.lookup = "done" /\ NoMatchIn(last.coll, last.req.isbn)) =>
    (last.status = 404 /\ last.body = Text("No data found"))

\* a padded numeric segment looked up in a collection that holds other records
C4_Witness ==
  /\ IsbnAnswered
  /\ last.req.isbn = <<" ", "7">>
  /\ last.lookup = "done"
  /\ last.coll # << >>
  /\ last.status = 404

(***************************************************************************)
(* C5                                                                       *)
(***************************************************************************)
\* C5: a search is answered 200 with success true and a filteredData that
\* holds exactly the records of the dataset as loaded that satisfy every
\* filter present, each as often as the dataset holds it, after whatever
\* requests came before.
C5_SearchReturnsExactlyTheMatching ==
  SearchAnswered =>
    /\ last.status = 200
    /\ last.body.json.success = TRUE
    /\ \A i \in 1..Len(last.body.json.filteredData) :
         \E k \in 1..Len(Data0) : Data0[k] = last.body.json.filteredData[i]
    /\ \A k \in 1..Len(Data0) :
         Count(last.body.json.filteredData, Data0[k]) =
           IF Satisfies(Data0[k], last.req.query) THEN Count(Data0, Data0[k]) ELSE 0

\* a filtered search on a dataset an earlier request has reordered, keeping
\* some records and dropping others
C5_Witness ==
  /\ SearchAnswered
  /\ data # Data0
  /\ NoSortFlag(last.req.query)
  /\ last.req.query.rating = <<"4">>
  /\ last.req.query.title # Absent
  /\ Len(last.body.json.filteredData) = 2

(***************************************************************************)
(* C6                                                                       *)
(***************************************************************************)
\* C6: a search with both sortPageCount and sortRating returns filteredData
\* in non-increasing page count, in the relative order of the sorted array.
C6_PageCountSortWins ==
  (SearchAnswered /\ BothSortFlags(last.req.query)) =>
    /\ NonIncreasing(last.body.json.filteredData, "num_pages")
    /\ KeepsOrderOf(last.body.json.filteredData, data)

\* both flags, and a result the rating sort alone would have ordered otherwise
C6_Witness ==
  /\ SearchAnswered
  /\ BothSortFlags(last.req.query)
  /\ Len(last.body.json.filteredData) >= 2
  /\ ~ NonIncreasing(last.body.json.filteredData, "average_rating")

(***************************************************************************)
(* C7                                                                       *)
(***************************************************************************)
\* C7 as stated: /lang/list returns each language code once, ordered by
\* first occurrence in the dataset as loaded at startup.
C7_LangListInLoadOrder ==
  LangListAnswered => DistinctCodesInOrderOf(last.body.json, Data0)

\* C7 amended: /lang/list returns each language code once, ordered by first
\* occurrence in the dataset in its current order.
C7_LangListInCurrentOrder ==
  LangListAnswered => DistinctCodesInOrderOf(last.body.json, data)

\* the list taken after a sort has moved another language to the front
C7_Witness ==
  /\ LangListAnswered
  /\ data # Data0
  /\ last.body.json # << >>
  /\ last.body.json[1] # Data0[1].language_code

(***************************************************************************)
(* C8                                                                       *)
(***************************************************************************)
\* C8: the insert runs only after the delete has completed (between the two
\* the collection is empty), and once seeding has finished the collection
\* holds the seed record and nothing else, whatever it held at the start and
\* however often the process has been started.
C8_SeedingLeavesOnlyTheSeedRecord ==
  /\ seed \in {"savePending", "saveFailed"} => db = << >>
  /\ seed = "done" => db = << SeedRecord >>

\* seeding has finished
C8_Witness ==
  /\ seed = "done"
  /\ Len(db) = 1
  /\ db[1].bookID = 36
  /\ db[1].isbn = 618391002

(***************************************************************************)
(* C9                                                                       *)
(***************************************************************************)
\* C9: the shared dataset is in the order the most recent sorting search
\* left it (load order when there was none), and a search without a sort
\* flag returns its records in that order.
C9_SearchSeesTheLastSortOrder ==
  /\ lastSort = "none" => data = Data0
  /\ lastSort # "none" => NonIncreasing(data, lastSort)
  /\ (SearchAnswered /\ NoSortFlag(last.req.query)) =>
       KeepsOrderOf(last.body.json.filteredData, data)

\* a search without sort flag whose result is not in load order
C9_Witness ==
  /\ SearchAnswered
  /\ NoSortFlag(last.req.query)
  /\ Len(last.body.json.filteredData) >= 2
  /\ ~ KeepsOrderOf(last.body.json.filteredData, Data0)

(***************************************************************************)
(* C10                                                                      *)
(***************************************************************************)
\* C10: every admitted request is answered, also when its database query is
\* rejected: no request is left without response and without a handler step
\* to come.
C10_EveryAdmittedRequestIsAnswered ==
  \A s \in Slots : pending[s].pc # "abandoned"

====
